---------------------------- MODULE Spec2Model ----------------------------
(***************************************************************************)
(* A model of the SOCKS5 client handshake of socks.go: DialSocks5Timeout,  *)
(* htons and splitHostPort, run against a transport (net.Conn) and a proxy *)
(* that may answer anything, close, break the connection or stall.         *)
(*                                                                         *)
(* Go strings and byte slices are sequences of bytes (0..255).  Time is a  *)
(* discrete clock that advances only while some call is blocked in a       *)
(* blocking transport operation (dial, read, write); the driver's own      *)
(* computation takes no time.                                              *)
(***************************************************************************)
EXTENDS Integers, Sequences, FiniteSets, TLC

(***************************************************************************)
(* Program constants (socks.go:16-22) and the literals of the code.        *)
(***************************************************************************)
Socks5Connect == 1
Socks5IPv4Addr == 1
Socks5DomainName == 3
Socks5IPv6Addr == 4
Socks5NoAuthentication == 0
Socks5RequestGranted == 0
Socks5Version == 5
\* 0xFF, the longest host the one-byte length prefix can carry (socks.go:68)
MaxHostLen == 255
\* the widths of a Go byte and of a uint16
ByteMod == 256
Uint16Mod == 65536

(***************************************************************************)
(* Bounds of the model.                                                    *)
(***************************************************************************)
\* the largest timeout a caller passes (clock ticks)
MaxTimeout == 2
\* the latest clock value at which a call may begin
MaxStart == 1
\* how many bytes a proxy may send beyond the bound port
MaxExtra == 2

(***************************************************************************)
(* Byte strings.                                                           *)
(***************************************************************************)
Colon == 58
LBracket == 91
RBracket == 93
Digit0 == 48
Digit9 == 57

\* n copies of the byte b
Rep(b, n) == [i \in 1..n |-> b]

\* Go's s[lo:hi]: the bytes at the 0-based places lo..hi-1
Slice(s, lo, hi) == SubSeq(s, lo + 1, hi)

\* The element of a one-element set.  Only({ e(x) : x \in { v } }) is e(v)
\* with v evaluated once, however often e uses it.
Only(S) == CHOOSE r \in S : TRUE

\* the 1-based places of the byte b in s
Places(s, b) == UNION { { i \in 1..Len(v) : v[i] = b } : v \in { s } }

\* bytealg.IndexByteString and LastIndexByteString: the 0-based index, or -1
IndexByte(s, b) ==
    Only({ IF at = {} THEN -1 ELSE (CHOOSE i \in at : \A j \in at : i <= j) - 1 :
             at \in { Places(s, b) } })

LastIndexByte(s, b) ==
    Only({ IF at = {} THEN -1 ELSE (CHOOSE i \in at : \A j \in at : i >= j) - 1 :
             at \in { Places(s, b) } })

(***************************************************************************)
(* Errors.  NoErr is Go's nil error.                                       *)
(***************************************************************************)
NoErr == [kind |-> "nil"]
\* a failure of the transport itself: connect, set-deadline, read or write
TransportErr(op, why) == [kind |-> "transport", op |-> op, why |-> why]
\* *net.AddrError of net.SplitHostPort
AddrErr(addr, why) == [kind |-> "addr", addr |-> addr, why |-> why]
\* *strconv.NumError of strconv.ParseUint
NumErr(text, why) == [kind |-> "num", text |-> text, why |-> why]

\* mutant: the two bytes of n, least significant first
htons_LittleEndian(n) == << n % ByteMod, (n \div ByteMod) % ByteMod >>

(***************************************************************************)
(* htons (socks.go:105-109): the two bytes of n, most significant first.   *)
(***************************************************************************)
htons(n) == << (n \div ByteMod) % ByteMod, n % ByteMod >>

(***************************************************************************)
(* net.SplitHostPort as called at socks.go:112.                            *)
(***************************************************************************)
SplitBracketedAt(hostport, i, end) ==
    IF end < 0 THEN [err |-> AddrErr(hostport, "missing ']' in address")]
    ELSE IF end + 1 = Len(hostport)
         THEN [err |-> AddrErr(hostport, "missing port in address")]
    ELSE IF end + 1 # i
         THEN IF hostport[end + 2] = Colon
              THEN [err |-> AddrErr(hostport, "too many colons in address")]
              ELSE [err |-> AddrErr(hostport, "missing port in address")]
    ELSE [err |-> NoErr, host |-> Slice(hostport, 1, end), j |-> 1, k |-> end + 1]

SplitBracketed(hostport, i) ==
    Only({ SplitBracketedAt(hostport, i, end) : end \in { IndexByte(hostport, RBracket) } })

SplitPlain(hostport, i) ==
    LET host == Slice(hostport, 0, i) IN
    IF IndexByte(host, Colon) >= 0
    THEN [err |-> AddrErr(hostport, "too many colons in address")]
    ELSE [err |-> NoErr, host |-> host, j |-> 0, k |-> 0]

\* the checks after the host is found: h is [err, host, j, k], i the last colon
SplitRest(hostport, i, h) ==
    IF h.err # NoErr THEN [err |-> h.err]
    ELSE IF IndexByte(Slice(hostport, h.j, Len(hostport)), LBracket) >= 0
         THEN [err |-> AddrErr(hostport, "unexpected '[' in address")]
    ELSE IF IndexByte(Slice(hostport, h.k, Len(hostport)), RBracket) >= 0
         THEN [err |-> AddrErr(hostport, "unexpected ']' in address")]
    ELSE [err |-> NoErr, host |-> h.host,
          port |-> Slice(hostport, i + 1, Len(hostport))]

SplitAt(hostport, i) ==
    IF i < 0 THEN [err |-> AddrErr(hostport, "missing port in address")]
    ELSE Only({ SplitRest(hostport, i, h) :
                  h \in { IF hostport[1] = LBracket
                          THEN SplitBracketed(hostport, i)
                          ELSE SplitPlain(hostport, i) } })

NetSplitHostPort(hostport) ==
    Only({ SplitAt(hostport, i) : i \in { LastIndexByte(hostport, Colon) } })

(***************************************************************************)
(* strconv.ParseUint(portStr, 10, 16) as called at socks.go:116.           *)
(***************************************************************************)
RECURSIVE DecimalValue(_)
DecimalValue(s) ==
    IF Len(s) = 0 THEN 0
    ELSE 10 * DecimalValue(SubSeq(s, 1, Len(s) - 1)) + (s[Len(s)] - Digit0)

\* mutant: the value is not held against the 16-bit range
ParseUint16_NoRange(s) ==
    IF Len(s) = 0 THEN [err |-> NumErr(s, "invalid syntax")]
    ELSE IF \E i \in 1..Len(s) : s[i] < Digit0 \/ s[i] > Digit9
         THEN [err |-> NumErr(s, "invalid syntax")]
    ELSE [err |-> NoErr, value |-> DecimalValue(s)]

ParseUint16(s) ==
    IF Len(s) = 0 THEN [err |-> NumErr(s, "invalid syntax")]
    ELSE IF \E i \in 1..Len(s) : s[i] < Digit0 \/ s[i] > Digit9
         THEN [err |-> NumErr(s, "invalid syntax")]
    ELSE IF DecimalValue(s) >= Uint16Mod
         THEN [err |-> NumErr(s, "value out of range")]
    ELSE [err |-> NoErr, value |-> DecimalValue(s)]

(***************************************************************************)
(* splitHostPort (socks.go:111-122).                                       *)
(***************************************************************************)
\* socks.go:116-121, with hp what net.SplitHostPort returned without error
parsePort(hp, portInt) ==
    IF portInt.err # NoErr THEN [err |-> portInt.err]
    ELSE [err |-> NoErr, host |-> hp.host, port |-> portInt.value % Uint16Mod]

splitHostPort(addr) ==
    Only({ IF hp.err # NoErr THEN [err |-> hp.err]
           ELSE Only({ parsePort(hp, portInt) : portInt \in { ParseUint16(hp.port) } }) :
             hp \in { NetSplitHostPort(addr) } })


(***************************************************************************)
(* The inputs of a call and the messages of a proxy.                       *)
(***************************************************************************)
\* "example.com"
ExampleCom == << 101, 120, 97, 109, 112, 108, 101, 46, 99, 111, 109 >>
\* lengths of the long hosts tried, around the one-byte limit
LongHostLens == { MaxHostLen, MaxHostLen + 1, 2 * MaxHostLen + 1 }

\* the byte string host:port
HostPort(host, portText) == host \o << Colon >> \o portText

\* Well-formed target addresses, each with the host and the port it names.
\* The ports are 443, 80, 0 and 65535; a host may be empty, an IPv6 literal
\* in brackets, an IPv4 literal, or long.
WellFormed ==
    { [addr |-> HostPort(ExampleCom, << 52, 52, 51 >>), host |-> ExampleCom, port |-> 443],
      [addr |-> HostPort(<< >>, << 56, 48 >>), host |-> << >>, port |-> 80],
      [addr |-> HostPort(<< 97 >>, << 48 >>), host |-> << 97 >>, port |-> 0],
      [addr |-> HostPort(<< 97 >>, << 54, 53, 53, 51, 53 >>), host |-> << 97 >>,
       port |-> 65535],
      [addr |-> HostPort(<< 91, 58, 58, 49, 93 >>, << 56, 48 >>),
       host |-> << 58, 58, 49 >>, port |-> 80],
      [addr |-> HostPort(<< 49, 46, 50, 46, 51, 46, 52 >>, << 56, 48 >>),
       host |-> << 49, 46, 50, 46, 51, 46, 52 >>, port |-> 80] }
    \cup { [addr |-> HostPort(Rep(97, n), << 56, 48 >>), host |-> Rep(97, n), port |-> 80] :
             n \in LongHostLens }

\* target addresses that name no host and port
Malformed ==
    { << 97, 58, 54, 53, 53, 51, 54 >>,               \* a:65536
      << 97, 58, 56, 120 >>,                          \* a:8x
      << 97, 58 >>,                                   \* a:
      << 97 >>,                                       \* a
      << 97, 58, 98, 58, 49 >> }                      \* a:b:1

TargetAddrs == { t.addr : t \in WellFormed } \cup Malformed

Timeouts == 0..MaxTimeout

\* bytes a proxy may put in a position the driver inspects
VersionBytes == { Socks5Version, 4 }
MethodBytes == { Socks5NoAuthentication, 2, 255 }
ReplyBytes == { Socks5RequestGranted, 1, 255 }
ReservedBytes == { 0, 1 }
AtypBytes == { Socks5IPv4Addr, Socks5DomainName, Socks5IPv6Addr, 127 }
FillBytes == { 0, 255 }

MethodReplies ==
    { << v, m >> : v \in VersionBytes, m \in MethodBytes } \cup { << Socks5Version >> }
ReplyHeaders ==
    { << v, r, s, a >> : v \in VersionBytes, r \in ReplyBytes,
                         s \in ReservedBytes, a \in AtypBytes }
    \cup { << Socks5Version, Socks5RequestGranted >> }
\* a bound address and port: cut short, IPv4, IPv6, IPv6 with bytes after it
BoundLens == { 4, 4 + 2, 16 + 2, 16 + 2 + MaxExtra }
BoundAddrs == { Rep(b, n) : b \in FillBytes, n \in BoundLens }
\* a granted reply sent whole: header, bound address and port, and what follows
GrantedReplies ==
    { << Socks5Version, Socks5RequestGranted, 0, a >> \o b :
        a \in { Socks5IPv4Addr, Socks5IPv6Addr }, b \in { Rep(0, n) : n \in BoundLens } }
\* a proxy that answers both requests at once, without waiting for the second
PipelinedReplies ==
    { << Socks5Version, Socks5NoAuthentication >> \o r :
        r \in { g \in GrantedReplies : Len(g) \in { 4 + 4 + 2, 4 + 16 + 2 } } }

\* the k-th message (k = 0, 1, 2) a proxy sends on a connection
ProxyMessages(k) ==
    IF k = 0 THEN MethodReplies \cup PipelinedReplies
    ELSE IF k = 1 THEN ReplyHeaders \cup GrantedReplies
    ELSE BoundAddrs

(***************************************************************************)
(* State.  Every variable but clock is a function of the call.             *)
(***************************************************************************)
VARIABLES
    calls,       \* the calls of DialSocks5Timeout made in this run
    clock,       \* time.Now()
    targetAddr,  \* argument targetAddr
    timeout,     \* argument timeout
    pc,          \* where the call is in DialSocks5Timeout
    now,         \* local now (socks.go:32); -1 before the call begins
    conn,        \* named result conn: Nil or the call's own connection
    resp,        \* the bytes the last io.ReadFull stored in resp
    req,         \* local req (socks.go:71-74)
    ret,         \* what the call returned: [conn, err]; NoRet before it returns
    retAt,       \* the clock at return; -1 before
    ops,         \* the transport operations the call performed, in order
    deadline,    \* the connection's deadline; -1 when none is set
    wire,        \* the bytes the connection carried to the proxy
    inbuf,       \* the bytes the proxy sent that the driver has not read
    nread,       \* how many bytes the driver consumed from the connection
    sent,        \* how many messages the proxy sent
    peerClosed,  \* the proxy closed its end
    broken,      \* the connection was reset
    wblock,      \* the connection's send buffer is full: a write blocks
    closed       \* the driver closed the connection

drvVars == << targetAddr, timeout, pc, now, conn, resp, req, ret, retAt, ops >>
netVars == << deadline, wire, inbuf, nread, sent, peerClosed, broken, wblock, closed >>
vars == << calls, clock, drvVars, netVars >>

Nil == 0
NoRet == [conn |-> Nil, err |-> [kind |-> "none"]]

IoSteps == { "greet", "readMethod", "writeReq", "readHeader", "readBound" }
WriteSteps == { "greet", "writeReq" }
ReadSteps == { "readMethod", "readHeader", "readBound" }

InitCalls(cs) ==
    /\ calls = cs
    /\ clock = 0
    /\ targetAddr \in [cs -> TargetAddrs]
    /\ timeout \in [cs -> Timeouts]
    /\ pc = [c \in cs |-> "start"]
    /\ now = [c \in cs |-> -1]
    /\ conn = [c \in cs |-> Nil]
    /\ resp = [c \in cs |-> << >>]
    /\ req = [c \in cs |-> << >>]
    /\ ret = [c \in cs |-> NoRet]
    /\ retAt = [c \in cs |-> -1]
    /\ ops = [c \in cs |-> << >>]
    /\ deadline = [c \in cs |-> -1]
    /\ wire = [c \in cs |-> << >>]
    /\ inbuf = [c \in cs |-> << >>]
    /\ nread = [c \in cs |-> 0]
    /\ sent = [c \in cs |-> 0]
    /\ peerClosed = [c \in cs |-> FALSE]
    /\ broken = [c \in cs |-> FALSE]
    /\ wblock = [c \in cs |-> FALSE]
    /\ closed = [c \in cs |-> FALSE]

Init == InitCalls({1})

(***************************************************************************)
(* The transport: what a blocking operation of net.Conn does in the        *)
(* connection's present state.  "blocked" means the operation waits.       *)
(***************************************************************************)
\* the latest clock value of a run
MaxClock == MaxStart + 2 * MaxTimeout

Op(name, n, data) == [op |-> name, n |-> n, data |-> data]

\* the deadline set on the connection has passed
DeadlineExceeded(c) == deadline[c] >= 0 /\ clock >= deadline[c]

\* net.DialTimeout gives up timeout after it was called; a timeout of 0 is none
DialExpired(c) == timeout[c] > 0 /\ clock >= now[c] + timeout[c]

\* conn.Write of any non-empty buffer
ConnWrite(c) ==
    IF DeadlineExceeded(c) THEN "timeout"
    ELSE IF broken[c] THEN "reset"
    ELSE IF wblock[c] THEN "blocked"
    ELSE "ok"

\* io.ReadFull(conn, resp[:n]): n bytes and no error, or an error after fewer.
\* conn.Read fails at once on a connection that is past its deadline or reset,
\* whatever is waiting; bytes short of n were taken by the reads before it.
ReadFull(c, n) ==
    LET have == IF Len(inbuf[c]) < n THEN Len(inbuf[c]) ELSE 0 IN
    IF DeadlineExceeded(c) THEN [res |-> "timeout", take |-> have]
    ELSE IF broken[c] THEN [res |-> "reset", take |-> have]
    ELSE IF Len(inbuf[c]) >= n THEN [res |-> "ok", take |-> n]
    ELSE IF peerClosed[c]
         THEN [res |-> IF have = 0 THEN "EOF" ELSE "unexpected EOF", take |-> have]
    ELSE [res |-> "blocked", take |-> 0]

(***************************************************************************)
(* The checks and the encoding of DialSocks5Timeout, as pure functions.    *)
(***************************************************************************)
\* the greeting (socks.go:45)
Greeting == << Socks5Version, 1, Socks5NoAuthentication >>

\* mutant: the deadline is counted from the time SetDeadline is called
DeadlineArg_FromNow(c) == clock + timeout[c]

\* socks.go:39: the deadline is the time taken at the start plus the timeout
DeadlineArg(c) == now[c] + timeout[c]

\* mutant: the version is checked and the chosen method is not
MethodCheck_VersionOnly(r) ==
    IF r[1] # Socks5Version THEN [kind |-> "notSocks5"] ELSE NoErr

\* mutant: the chosen method is checked and the version is not
MethodCheck_MethodOnly(r) ==
    IF r[2] # Socks5NoAuthentication
    THEN [kind |-> "authFailed", expected |-> Socks5NoAuthentication, got |-> r[2]]
    ELSE NoErr

\* socks.go:55-60
MethodCheck(r) ==
    IF r[1] # Socks5Version THEN [kind |-> "notSocks5"]
    ELSE IF r[2] # Socks5NoAuthentication
         THEN [kind |-> "authFailed", expected |-> Socks5NoAuthentication, got |-> r[2]]
    ELSE NoErr

\* mutant: a host of exactly 0xFF bytes is refused
HostTooLong_OffByOne(hostBytes) == Len(hostBytes) >= MaxHostLen

\* mutant: the limit is 0x100, so a host of 256 bytes passes
HostTooLong_Wrap(hostBytes) == Len(hostBytes) > ByteMod

\* socks.go:68
HostTooLong(hostBytes) == Len(hostBytes) > MaxHostLen

\* socks.go:71-74
ConnectRequest(hostBytes, port) ==
    << Socks5Version, Socks5Connect, 0, Socks5DomainName, Len(hostBytes) % ByteMod >>
        \o hostBytes \o htons(port)

\* mutant: the reserved byte is checked before the status
HeaderCheck_ReservedFirst(r) ==
    IF r[1] # Socks5Version THEN [kind |-> "badVersion", got |-> r[1]]
    ELSE IF r[3] # 0 THEN [kind |-> "badReserved", got |-> r[3]]
    ELSE IF r[2] # Socks5RequestGranted THEN [kind |-> "refused", got |-> r[2]]
    ELSE NoErr

\* mutant: the status is checked before the version
HeaderCheck_StatusFirst(r) ==
    IF r[2] # Socks5RequestGranted THEN [kind |-> "refused", got |-> r[2]]
    ELSE IF r[1] # Socks5Version THEN [kind |-> "badVersion", got |-> r[1]]
    ELSE IF r[3] # 0 THEN [kind |-> "badReserved", got |-> r[3]]
    ELSE NoErr

\* socks.go:85-93
HeaderCheck(r) ==
    IF r[1] # Socks5Version THEN [kind |-> "badVersion", got |-> r[1]]
    ELSE IF r[2] # Socks5RequestGranted THEN [kind |-> "refused", got |-> r[2]]
    ELSE IF r[3] # 0 THEN [kind |-> "badReserved", got |-> r[3]]
    ELSE NoErr

\* mutant: a domain-name bound address is read like an IPv4 one
BoundSize_Domain(atyp) ==
    IF atyp = Socks5IPv4Addr \/ atyp = Socks5DomainName THEN 4 + 2
    ELSE IF atyp = Socks5IPv6Addr THEN 16 + 2
    ELSE 0

\* mutant: the bound address is read and the port after it is not
BoundSize_NoPort(atyp) ==
    IF atyp = Socks5IPv4Addr THEN 4
    ELSE IF atyp = Socks5IPv6Addr THEN 16
    ELSE 0

\* socks.go:94-101: how many bound-address bytes follow; 0 for an unknown type
BoundSize(atyp) ==
    IF atyp = Socks5IPv4Addr THEN 4 + 2
    ELSE IF atyp = Socks5IPv6Addr THEN 16 + 2
    ELSE 0

\* mutant: one buffer, that of call 1, serves every call
RespBuf_Global(c) == 1

\* socks.go:30: resp is a local of the call, so each call reads into its own
RespBuf(c) == c

\* the size of the read the call is at
ReadSize(c) ==
    IF pc[c] = "readMethod" THEN 2
    ELSE IF pc[c] = "readHeader" THEN 4
    ELSE BoundSize(resp[RespBuf(c)][4])

(***************************************************************************)
(* The steps of DialSocks5Timeout.                                         *)
(***************************************************************************)
Goto(c, label) ==
    /\ pc' = [pc EXCEPT ![c] = label]
    /\ UNCHANGED << ret, retAt >>

Return(c, cn, e) ==
    /\ pc' = [pc EXCEPT ![c] = "done"]
    /\ ret' = [ret EXCEPT ![c] = [conn |-> cn, err |-> e]]
    /\ retAt' = [retAt EXCEPT ![c] = clock]

Log(c, o) == ops' = [ops EXCEPT ![c] = Append(@, o)]

\* socks.go:32-33: take the time, call net.DialTimeout
Begin(c) ==
    /\ pc[c] = "start"
    /\ now' = [now EXCEPT ![c] = clock]
    /\ Log(c, Op("connect", 0, << >>))
    /\ Goto(c, "dial")
    /\ UNCHANGED << calls, clock, targetAddr, timeout, conn, resp, req, netVars >>

\* socks.go:33-36: net.DialTimeout returns
DialTimeout(c) ==
    /\ pc[c] = "dial"
    /\ IF DialExpired(c)
       THEN /\ Return(c, Nil, TransportErr("connect", "timeout"))
            /\ UNCHANGED conn
       ELSE \E ok \in BOOLEAN :
              IF ok
              THEN /\ conn' = [conn EXCEPT ![c] = c]
                   /\ Goto(c, "setDeadline")
              ELSE /\ Return(c, Nil, TransportErr("connect", "refused"))
                   /\ UNCHANGED conn
    /\ UNCHANGED << calls, clock, targetAddr, timeout, now, resp, req, ops, netVars >>

\* mutant: the error of conn.SetDeadline is not looked at
SetDeadline_IgnoreError(c) ==
    /\ pc[c] = "setDeadline"
    /\ Log(c, Op("setDeadline", 0, << >>))
    /\ \E ok \in BOOLEAN :
         deadline' = IF ok THEN [deadline EXCEPT ![c] = DeadlineArg(c)] ELSE deadline
    /\ Goto(c, "greet")
    /\ UNCHANGED << calls, clock, targetAddr, timeout, now, conn, resp, req,
                    wire, inbuf, nread, sent, peerClosed, broken, wblock, closed >>

\* socks.go:39-42
SetDeadline(c) ==
    /\ pc[c] = "setDeadline"
    /\ Log(c, Op("setDeadline", 0, << >>))
    /\ \E ok \in BOOLEAN :
         IF ok
         THEN /\ deadline' = [deadline EXCEPT ![c] = DeadlineArg(c)]
              /\ Goto(c, "greet")
         ELSE /\ Return(c, Nil, TransportErr("setDeadline", "failed"))
              /\ UNCHANGED deadline
    /\ UNCHANGED << calls, clock, targetAddr, timeout, now, conn, resp, req,
                    wire, inbuf, nread, sent, peerClosed, broken, wblock, closed >>

\* conn.Write(data), then the next step or the return of its error
WriteStep(c, data, next) ==
    /\ ConnWrite(c) # "blocked"
    /\ Log(c, Op("write", Len(data), data))
    /\ IF ConnWrite(c) = "ok"
       THEN /\ wire' = [wire EXCEPT ![c] = @ \o data]
            /\ Goto(c, next)
       ELSE /\ \E k \in { 0, Len(data) - 1 } :
                  wire' = [wire EXCEPT ![c] = @ \o SubSeq(data, 1, k)]
            /\ Return(c, Nil, TransportErr("write", ConnWrite(c)))
    /\ UNCHANGED << calls, clock, targetAddr, timeout, now, conn, resp, req,
                    deadline, inbuf, nread, sent, peerClosed, broken, wblock, closed >>

\* socks.go:45-48
WriteGreeting(c) ==
    /\ pc[c] = "greet"
    /\ WriteStep(c, Greeting, "readMethod")

\* io.ReadFull(conn, resp[:n]): what every read step does to the connection
ReadStep(c, n) ==
    /\ ReadFull(c, n).res # "blocked"
    /\ Log(c, Op("read", n, SubSeq(inbuf[c], 1, ReadFull(c, n).take)))
    /\ resp' = [resp EXCEPT ![RespBuf(c)] = SubSeq(inbuf[c], 1, ReadFull(c, n).take)]
    /\ inbuf' = [inbuf EXCEPT ![c] = SubSeq(@, ReadFull(c, n).take + 1, Len(@))]
    /\ nread' = [nread EXCEPT ![c] = @ + ReadFull(c, n).take]
    /\ UNCHANGED << calls, clock, targetAddr, timeout, now, conn, req,
                    deadline, wire, sent, peerClosed, broken, wblock, closed >>

\* socks.go:51-60
ReadMethod(c) ==
    /\ pc[c] = "readMethod"
    /\ ReadStep(c, 2)
    /\ IF ReadFull(c, 2).res # "ok"
       THEN Return(c, Nil, TransportErr("read", ReadFull(c, 2).res))
       ELSE IF MethodCheck(resp'[RespBuf(c)]) # NoErr
            THEN Return(c, Nil, MethodCheck(resp'[RespBuf(c)]))
            ELSE Goto(c, "resolve")

\* socks.go:63-74
Resolve(c) ==
    /\ pc[c] = "resolve"
    /\ \E hp \in { splitHostPort(targetAddr[c]) } :
         IF hp.err # NoErr
         THEN /\ Return(c, Nil, hp.err)
              /\ UNCHANGED req
         ELSE IF HostTooLong(hp.host)
              THEN /\ Return(c, Nil, [kind |-> "hostTooLong", host |-> hp.host,
                                      limit |-> MaxHostLen])
                   /\ UNCHANGED req
              ELSE /\ req' = [req EXCEPT ![c] = ConnectRequest(hp.host, hp.port)]
                   /\ Goto(c, "writeReq")
    /\ UNCHANGED << calls, clock, targetAddr, timeout, now, conn, resp, ops, netVars >>

\* socks.go:75-78
WriteRequest(c) ==
    /\ pc[c] = "writeReq"
    /\ WriteStep(c, req[c], "readHeader")

\* socks.go:81-93 and the default case of the switch (socks.go:99-100)
ReadHeader(c) ==
    /\ pc[c] = "readHeader"
    /\ ReadStep(c, 4)
    /\ IF ReadFull(c, 4).res # "ok"
       THEN Return(c, Nil, TransportErr("read", ReadFull(c, 4).res))
       ELSE IF HeaderCheck(resp'[RespBuf(c)]) # NoErr
            THEN Return(c, Nil, HeaderCheck(resp'[RespBuf(c)]))
            ELSE IF BoundSize(resp'[RespBuf(c)][4]) = 0
                 THEN Return(c, Nil, [kind |-> "badAtyp", got |-> resp'[RespBuf(c)][4]])
                 ELSE Goto(c, "readBound")

\* mutant: the error of the read of the bound address is dropped
FinalResult_Swallow(c, e) == [conn |-> conn[c], err |-> NoErr]

\* the result of socks.go:102 after the read of the bound address
FinalResult(c, e) == [conn |-> conn[c], err |-> e]

\* socks.go:94-98 and 102
ReadBound(c) ==
    /\ pc[c] = "readBound"
    /\ ReadStep(c, ReadSize(c))
    /\ LET r == ReadFull(c, ReadSize(c))
           e == IF r.res = "ok" THEN NoErr ELSE TransportErr("read", r.res)
       IN Return(c, FinalResult(c, e).conn, FinalResult(c, e).err)

(***************************************************************************)
(* The proxy, the network and time.                                        *)
(***************************************************************************)
Connected(c) == conn[c] # Nil /\ pc[c] # "done" /\ ~broken[c]

\* how many reads of the call have returned
ReadsDone(c) == Cardinality({ i \in 1..Len(ops[c]) : ops[c][i].op = "read" })

\* the size of the read the call is at or will come to next
NextReadSize(c) ==
    IF pc[c] \in { "setDeadline", "greet", "readMethod" } THEN 2
    ELSE IF pc[c] \in { "resolve", "writeReq", "readHeader" } THEN 4
    ELSE ReadSize(c)

\* The proxy sends its next message.  The driver sees the stream only through
\* io.ReadFull, so it is enough that a message arrives when the read before it
\* has returned and the bytes waiting do not yet fill the next read; a message
\* may carry more bytes than that read takes.
ProxySend(c) ==
    /\ Connected(c)
    /\ ~peerClosed[c]
    /\ sent[c] < 3
    /\ sent[c] <= ReadsDone(c)
    /\ Len(inbuf[c]) < NextReadSize(c)
    /\ \E m \in ProxyMessages(sent[c]) :
         inbuf' = [inbuf EXCEPT ![c] = @ \o m]
    /\ sent' = [sent EXCEPT ![c] = @ + 1]
    /\ UNCHANGED << calls, clock, drvVars, deadline, wire, nread, peerClosed,
                    broken, wblock, closed >>

\* The proxy closes its end of the connection.  The driver notices only in a
\* read that lacks bytes, so the close is taken when such a read is waiting.
ProxyClose(c) ==
    /\ Connected(c)
    /\ ~peerClosed[c]
    /\ pc[c] \in ReadSteps
    /\ ReadFull(c, ReadSize(c)).res = "blocked"
    /\ peerClosed' = [peerClosed EXCEPT ![c] = TRUE]
    /\ UNCHANGED << calls, clock, drvVars, deadline, wire, inbuf, nread, sent,
                    broken, wblock, closed >>

\* The connection is reset.  The driver notices only in a read or a write, so
\* the reset is taken when the call is at one that has not yet failed.
ConnReset(c) ==
    /\ Connected(c)
    /\ pc[c] \in IoSteps
    /\ ~DeadlineExceeded(c)
    /\ broken' = [broken EXCEPT ![c] = TRUE]
    /\ UNCHANGED << calls, clock, drvVars, deadline, wire, inbuf, nread, sent,
                    peerClosed, wblock, closed >>

\* the send buffer fills up as the call is about to write: the write blocks
SendBufferFill(c) ==
    /\ Connected(c)
    /\ pc[c] \in WriteSteps
    /\ ~wblock[c]
    /\ ConnWrite(c) = "ok"
    /\ wblock' = [wblock EXCEPT ![c] = TRUE]
    /\ UNCHANGED << calls, clock, drvVars, deadline, wire, inbuf, nread, sent,
                    peerClosed, broken, closed >>

\* the send buffer drains: a blocked write can go on
SendBufferDrain(c) ==
    /\ Connected(c)
    /\ wblock[c]
    /\ wblock' = [wblock EXCEPT ![c] = FALSE]
    /\ UNCHANGED << calls, clock, drvVars, deadline, wire, inbuf, nread, sent,
                    peerClosed, broken, closed >>

\* the call is waiting: it has not begun, is blocked in the transport, or returned
Waiting(c) ==
    IF pc[c] = "start" THEN clock < MaxStart
    ELSE IF pc[c] = "dial" THEN ~DialExpired(c) /\ clock < MaxClock
    ELSE IF pc[c] \in WriteSteps THEN ConnWrite(c) = "blocked"
    ELSE IF pc[c] \in ReadSteps THEN ReadFull(c, ReadSize(c)).res = "blocked"
    ELSE pc[c] = "done"

\* time passes while every call waits
Tick ==
    /\ \E c \in calls : pc[c] # "done"
    /\ \A c \in calls : Waiting(c)
    /\ clock' = clock + 1
    /\ UNCHANGED << calls, drvVars, netVars >>

Next ==
    \/ \E c \in calls : Begin(c)
    \/ \E c \in calls : DialTimeout(c)
    \/ \E c \in calls : SetDeadline(c)
    \/ \E c \in calls : WriteGreeting(c)
    \/ \E c \in calls : ReadMethod(c)
    \/ \E c \in calls : Resolve(c)
    \/ \E c \in calls : WriteRequest(c)
    \/ \E c \in calls : ReadHeader(c)
    \/ \E c \in calls : ReadBound(c)
    \/ \E c \in calls : ProxySend(c)
    \/ \E c \in calls : ProxyClose(c)
    \/ \E c \in calls : ConnReset(c)
    \/ \E c \in calls : SendBufferFill(c)
    \/ \E c \in calls : SendBufferDrain(c)
    \/ Tick

Spec == Init /\ [][Next]_vars

(***************************************************************************)
(* A run in which the transport connects, the target address is well       *)
(* formed with a host that fits, and the proxy answers correctly and       *)
(* before the deadline.  The driver's steps are those of Spec.             *)
(***************************************************************************)
ValidTargets == { t.addr : t \in { w \in WellFormed : Len(w.host) <= MaxHostLen } }

\* what a correct proxy sends as its next message
GoodMessages(c) ==
    IF sent[c] = 0 THEN { << Socks5Version, Socks5NoAuthentication >> }
    ELSE IF sent[c] = 1
         THEN { << Socks5Version, Socks5RequestGranted, 0, a >> :
                  a \in { Socks5IPv4Addr, Socks5IPv6Addr } }
              \cup { g \in GrantedReplies : Len(g) >= 4 + BoundSize(g[4]) }
    ELSE { b \in BoundAddrs : Len(b) >= BoundSize(resp[RespBuf(c)][4]) }

GoodInit ==
    /\ InitCalls({1})
    /\ \A c \in calls : targetAddr[c] \in ValidTargets /\ timeout[c] > 0

GoodDial(c) == DialTimeout(c) /\ conn'[c] # Nil

GoodSetDeadline(c) == SetDeadline(c) /\ deadline'[c] >= 0

GoodProxySend(c) ==
    /\ ProxySend(c)
    /\ \E m \in GoodMessages(c) : inbuf'[c] = inbuf[c] \o m

\* time passes, and stays short of every dial's and every connection's deadline
GoodTick ==
    /\ Tick
    /\ \A c \in calls :
         /\ pc[c] = "dial" => clock' < now[c] + timeout[c]
         /\ deadline[c] >= 0 => clock' < deadline[c]

GoodNext ==
    \/ \E c \in calls : Begin(c)
    \/ \E c \in calls : GoodDial(c)
    \/ \E c \in calls : GoodSetDeadline(c)
    \/ \E c \in calls : WriteGreeting(c)
    \/ \E c \in calls : ReadMethod(c)
    \/ \E c \in calls : Resolve(c)
    \/ \E c \in calls : WriteRequest(c)
    \/ \E c \in calls : ReadHeader(c)
    \/ \E c \in calls : ReadBound(c)
    \/ \E c \in calls : GoodProxySend(c)
    \/ GoodTick

\* the driver runs and the proxy answers: some step is taken while one can be
GoodSpec == GoodInit /\ [][GoodNext]_vars /\ WF_vars(GoodNext)

(***************************************************************************)
(* Two calls of DialSocks5Timeout running at once, each through its own    *)
(* connection, with a proxy that answers each connection with one of a few *)
(* messages.  The driver's steps are those of Spec, taken in any order.    *)
(***************************************************************************)
PairCalls == { 1, 2 }

\* example.com:443 and a:65536
PairTargets == { HostPort(ExampleCom, << 52, 52, 51 >>), << 97, 58, 54, 53, 53, 51, 54 >> }

\* the k-th message (k = 0, 1, 2) the proxy sends on a connection
PairMessages(k) ==
    IF k = 0 THEN { << Socks5Version, Socks5NoAuthentication >>, << Socks5Version, 2 >> }
    ELSE IF k = 1
         THEN { << Socks5Version, Socks5RequestGranted, 0, Socks5IPv4Addr >>,
                << Socks5Version, Socks5RequestGranted, 0, Socks5IPv6Addr >>,
                << Socks5Version, 1, 0, Socks5IPv4Addr >> }
    ELSE { Rep(0, 4 + 2), Rep(255, 16 + 2) }

PairInit ==
    /\ InitCalls(PairCalls)
    /\ \A c \in calls : targetAddr[c] \in PairTargets /\ timeout[c] = MaxTimeout

PairProxySend(c) ==
    /\ ProxySend(c)
    /\ \E m \in PairMessages(sent[c]) : inbuf'[c] = inbuf[c] \o m

PairNext ==
    \/ \E c \in calls : Begin(c)
    \/ \E c \in calls : DialTimeout(c)
    \/ \E c \in calls : SetDeadline(c)
    \/ \E c \in calls : WriteGreeting(c)
    \/ \E c \in calls : ReadMethod(c)
    \/ \E c \in calls : Resolve(c)
    \/ \E c \in calls : WriteRequest(c)
    \/ \E c \in calls : ReadHeader(c)
    \/ \E c \in calls : ReadBound(c)
    \/ \E c \in calls : PairProxySend(c)
    \/ Tick

PairSpec == PairInit /\ [][PairNext]_vars

(***************************************************************************)
(* Properties.                                                             *)
(***************************************************************************)
Done(c) == pc[c] = "done"
Succeeded(c) == Done(c) /\ ret[c].conn # Nil /\ ret[c].err = NoErr
Failed(c) == Done(c) /\ ret[c].conn = Nil /\ ret[c].err # NoErr

\* C1: every return yields either (a connection, no error) or (no connection,
\* an error), never a connection together with an error.
ExactlyOneOutcome ==
    \A c \in calls : Done(c) => (Succeeded(c) \/ Failed(c))

\* C2: with a valid target, a transport that connects and a proxy that answers
\* correctly before the deadline, the handshake terminates and returns the
\* connection with no error.
GoodHandshakeSucceeds == <>(\A c \in calls : Succeeded(c))

\* a call that succeeded after waiting, with the longest host that fits
GoodHandshakeWitness ==
    \E c \in calls :
        /\ Succeeded(c)
        /\ retAt[c] > now[c]
        /\ Len(req[c]) = 5 + MaxHostLen + 2

\* C3: the transport operations of a call are a prefix of connect,
\* set-deadline, write greeting, read 2, write connect request, read 4,
\* read 6 or 18; the connect request is written only after the
\* method-selection reply 05 00 has been read.
OpAsExpected(c, i) ==
    LET o == ops[c][i] IN
    IF i = 1 THEN o.op = "connect"
    ELSE IF i = 2 THEN o.op = "setDeadline"
    ELSE IF i = 3 THEN o.op = "write" /\ o.data = Greeting
    ELSE IF i = 4 THEN o.op = "read" /\ o.n = 2
    ELSE IF i = 5 THEN /\ o.op = "write" /\ o.data = req[c] /\ Len(req[c]) >= 7
                       /\ ops[c][4].data = << Socks5Version, Socks5NoAuthentication >>
    ELSE IF i = 6 THEN o.op = "read" /\ o.n = 4
    ELSE IF i = 7 THEN o.op = "read" /\ o.n \in { 4 + 2, 16 + 2 }
    ELSE FALSE

OpsInOrder ==
    \A c \in calls : \A i \in 1..Len(ops[c]) : OpAsExpected(c, i)

\* a call that performed all seven operations, the last a read of 18 bytes
OpsInOrderWitness ==
    \E c \in calls : Len(ops[c]) = 7 /\ ops[c][7].n = 16 + 2 /\ Succeeded(c)

\* the host and port a well-formed target address names
IsWellFormed(c) == \E w \in WellFormed : w.addr = targetAddr[c]
TargetOf(c) == CHOOSE w \in WellFormed : w.addr = targetAddr[c]

\* the writes the call performed or began
Writes(c) == { i \in 1..Len(ops[c]) : ops[c][i].op = "write" }

\* s is a prefix of t
IsPrefix(s, t) == Len(s) <= Len(t) /\ SubSeq(t, 1, Len(s)) = s

\* the call read the method-selection reply 05 00 and went on
MethodAccepted(c) ==
    /\ Len(ops[c]) >= 4
    /\ ops[c][4].data = << Socks5Version, Socks5NoAuthentication >>
    /\ pc[c] # "resolve"

\* C4: a host longer than 255 bytes makes the call fail with the
\* address-too-long error once the check is reached, and no byte of a connect
\* request is ever written for it; a host of 0..255 bytes passes the check
\* and the LEN byte of the request equals its length.
HostLengthChecked ==
    \A c \in calls : IsWellFormed(c) =>
        LET h == TargetOf(c).host IN
        IF Len(h) > 255
        THEN /\ Cardinality(Writes(c)) <= 1
             /\ IsPrefix(wire[c], Greeting)
             /\ req[c] = << >>
             /\ ~Succeeded(c)
             /\ MethodAccepted(c) =>
                  /\ Done(c)
                  /\ ret[c] = [conn |-> Nil,
                               err |-> [kind |-> "hostTooLong", host |-> h, limit |-> 255]]
        ELSE /\ Done(c) => ret[c].err.kind # "hostTooLong"
             /\ MethodAccepted(c) => Len(req[c]) = 5 + Len(h) + 2 /\ req[c][5] = Len(h)
             /\ \A i \in Writes(c) : i > 3 => ops[c][i].data[5] = Len(h)

\* a call with a host of 256 bytes that failed with the address-too-long error
HostLengthWitness ==
    \E c \in calls :
        /\ IsWellFormed(c) /\ Len(TargetOf(c).host) = 256
        /\ Done(c) /\ ret[c].err.kind = "hostTooLong"

\* the call read a method-selection reply with version 5 and a method other than 0
MethodRefused(c) ==
    /\ Len(ops[c]) >= 4
    /\ Len(ops[c][4].data) = 2
    /\ ops[c][4].data[1] = 5
    /\ ops[c][4].data[2] # 0

\* C5: a method-selection reply with version 5 and a method byte other than 0
\* makes the call fail with the authentication-negotiation error reporting
\* that byte, and the 3 greeting bytes are all the driver ever wrote.
AuthNegotiationFails ==
    \A c \in calls : MethodRefused(c) =>
        /\ Done(c)
        /\ ret[c] = [conn |-> Nil,
                     err |-> [kind |-> "authFailed", expected |-> 0,
                              got |-> ops[c][4].data[2]]]
        /\ Len(ops[c]) = 4
        /\ wire[c] = << 5, 1, 0 >>

\* a call refused with method byte 0xFF
AuthNegotiationWitness ==
    \E c \in calls : MethodRefused(c) /\ ops[c][4].data[2] = 255 /\ Done(c)

\* the call read a whole connect reply header
HeaderRead(c) == Len(ops[c]) >= 6 /\ Len(ops[c][6].data) = 4
Header(c) == ops[c][6].data

\* C6: a reply header with version 5 and a status REP other than 0 makes the
\* call fail with the connect-refused error carrying REP, whatever the
\* reserved and ATYP bytes are, and no bound-address byte is read.
ConnectRefusedReported ==
    \A c \in calls : (HeaderRead(c) /\ Header(c)[1] = 5 /\ Header(c)[2] # 0) =>
        /\ Done(c)
        /\ ret[c] = [conn |-> Nil, err |-> [kind |-> "refused", got |-> Header(c)[2]]]
        /\ Len(ops[c]) = 6
        /\ nread[c] = 2 + 4

\* a call refused with status 0xFF in a header whose other bytes are wrong too
ConnectRefusedWitness ==
    \E c \in calls : HeaderRead(c) /\ Header(c) = << 5, 255, 1, 127 >> /\ Done(c)

\* C7: a reply header 05 00 00 with an ATYP other than 1 and 4 makes the call
\* fail with the unsupported-address-type error naming that byte; no further
\* byte is read and no connection is returned.
UnsupportedAtypReported ==
    \A c \in calls :
        (HeaderRead(c) /\ SubSeq(Header(c), 1, 3) = << 5, 0, 0 >>
           /\ Header(c)[4] \notin { 1, 4 }) =>
        /\ Done(c)
        /\ ret[c] = [conn |-> Nil, err |-> [kind |-> "badAtyp", got |-> Header(c)[4]]]
        /\ Len(ops[c]) = 6
        /\ nread[c] = 2 + 4

\* a call that failed on a domain-name bound address (ATYP 3)
UnsupportedAtypWitness ==
    \E c \in calls : HeaderRead(c) /\ Header(c) = << 5, 0, 0, 3 >> /\ Done(c)

\* the error is a timeout of a read or a write
IoTimeout(e) == e.kind = "transport" /\ e.op \in { "read", "write" } /\ e.why = "timeout"

\* what the read or the write the call is at does now
IoOutcome(c) ==
    IF pc[c] \in WriteSteps THEN ConnWrite(c) ELSE ReadFull(c, ReadSize(c)).res

\* C8: a call waits in a read or a write only before t0 + timeout, where t0 is
\* the time taken before the connect; at t0 + timeout the read or write fails
\* with a timeout, and the call has returned by then.
StallBounded ==
    \A c \in calls :
        /\ (pc[c] \in IoSteps /\ Waiting(c)) => clock < now[c] + timeout[c]
        /\ (pc[c] \in IoSteps /\ clock >= now[c] + timeout[c]) => IoOutcome(c) = "timeout"
        /\ (Done(c) /\ timeout[c] > 0) => retAt[c] <= now[c] + timeout[c]
        /\ (Done(c) /\ IoTimeout(ret[c].err) /\ timeout[c] > 0) =>
              retAt[c] = now[c] + timeout[c]

\* a call that began at time 1, stalled in the read of the reply header and
\* failed with a timeout at t0 + timeout
StallBoundedWitness ==
    \E c \in calls :
        /\ Done(c) /\ IoTimeout(ret[c].err) /\ ret[c].err.op = "read"
        /\ Len(ops[c]) = 6
        /\ now[c] = 1 /\ timeout[c] = MaxTimeout /\ retAt[c] = 1 + MaxTimeout

\* the places in the log where the call set the deadline
DeadlineSets(c) == { i \in 1..Len(ops[c]) : ops[c][i].op = "setDeadline" }

\* C9: the deadline is set once, before any byte is written, to t0 + timeout,
\* and stays so: a connection returned on success carries t0 + timeout.
DeadlineSetOnce ==
    \A c \in calls :
        /\ Cardinality(DeadlineSets(c)) <= 1
        /\ Len(ops[c]) >= 3 => Cardinality(DeadlineSets(c)) = 1
        /\ deadline[c] # -1 => (deadline[c] = now[c] + timeout[c] /\ DeadlineSets(c) # {})
        /\ \A i \in Writes(c) : \E j \in DeadlineSets(c) : j < i
        /\ wire[c] # << >> => deadline[c] # -1
        /\ Succeeded(c) => deadline[c] = now[c] + timeout[c]

\* a call that began at time 1 and succeeded after waiting
DeadlineSetOnceWitness ==
    \E c \in calls :
        /\ Succeeded(c) /\ now[c] = 1 /\ retAt[c] > 1
        /\ deadline[c] = 1 + timeout[c]

\* the writes of a connect request
RequestWrites(c) == { i \in Writes(c) : i > 3 }

\* 05 01 00 03 0B "example.com" 01 BB
ExampleRequest ==
    << 5, 1, 0, 3, 11, 101, 120, 97, 109, 112, 108, 101, 46, 99, 111, 109, 1, 187 >>

\* C10: the connect request is 05 01 00 03 LEN HOST PORT_HI PORT_LO, of 7 + LEN
\* bytes, given to the connection in one write; for example.com:443 it is
\* 05 01 00 03 0B 65 78 61 6D 70 6C 65 2E 63 6F 6D 01 BB.
RequestEncoding ==
    \A c \in calls :
        /\ Cardinality(RequestWrites(c)) <= 1
        /\ \A i \in RequestWrites(c) :
             /\ IsWellFormed(c)
             /\ LET w == TargetOf(c)
                    d == ops[c][i].data
                IN /\ d = << 5, 1, 0, 3, Len(w.host) >> \o w.host
                            \o << w.port \div 256, w.port % 256 >>
                   /\ Len(d) = 7 + Len(w.host)
                   /\ Len(w.host) <= 255
                   /\ w.host = ExampleCom /\ w.port = 443 => d = ExampleRequest
                   /\ pc[c] \in { "readHeader", "readBound" } => wire[c] = << 5, 1, 0 >> \o d

\* the request for example.com:443 went out whole
RequestEncodingWitness ==
    \E c \in calls : wire[c] = << 5, 1, 0 >> \o ExampleRequest /\ Succeeded(c)

\* target addresses the resolver is to refuse as malformed: no host:port
\* separator ("a"), or an empty host (":80")
NoSeparatorAddr == << 97 >>
EmptyHostAddr == << Colon, 56, 48 >>

\* C11: a target address with a missing host:port separator or with an empty
\* host makes the call fail with the invalid-address error once the address
\* is resolved, and no connect request is built or written for it.
MalformedAddressRejected ==
    \A c \in calls : targetAddr[c] \in { NoSeparatorAddr, EmptyHostAddr } =>
        /\ req[c] = << >>
        /\ RequestWrites(c) = {}
        /\ IsPrefix(wire[c], Greeting)
        /\ MethodAccepted(c) =>
             /\ Done(c)
             /\ ret[c].conn = Nil
             /\ ret[c].err.kind = "addr"

\* target addresses whose port text is no number in 0..65535, with that text
\* and what strconv says of it: a:65536, a:8x, a:
BadPorts ==
    { [addr |-> << 97, 58, 54, 53, 53, 51, 54 >>, text |-> << 54, 53, 53, 51, 54 >>,
       why |-> "value out of range"],
      [addr |-> << 97, 58, 56, 120 >>, text |-> << 56, 120 >>, why |-> "invalid syntax"],
      [addr |-> << 97, 58 >>, text |-> << >>, why |-> "invalid syntax"] }

\* C12: a target address whose port text is non-numeric or denotes a value
\* outside 0..65535 makes the call fail with the invalid-port error naming
\* that text, and no connect-request byte is written for it; the port of a
\* request that is built is the value of the port text, never a truncation.
PortTextChecked ==
    \A c \in calls :
        /\ \A b \in BadPorts : targetAddr[c] = b.addr =>
             /\ req[c] = << >>
             /\ RequestWrites(c) = {}
             /\ IsPrefix(wire[c], Greeting)
             /\ MethodAccepted(c) =>
                  /\ Done(c)
                  /\ ret[c] = [conn |-> Nil,
                               err |-> [kind |-> "num", text |-> b.text, why |-> b.why]]
        /\ req[c] # << >> =>
             /\ IsWellFormed(c)
             /\ TargetOf(c).port \in 0..65535
             /\ SubSeq(req[c], Len(req[c]) - 1, Len(req[c]))
                  = << TargetOf(c).port \div 256, TargetOf(c).port % 256 >>

\* a call for a:65536 that failed with the out-of-range error, and nothing but
\* the greeting written
PortTextWitness ==
    \E c \in calls :
        /\ targetAddr[c] = << 97, 58, 54, 53, 53, 51, 54 >>
        /\ Done(c) /\ ret[c].err.kind = "num" /\ ret[c].err.why = "value out of range"
        /\ wire[c] = Greeting

\* the one error a connect reply header h is to yield: the first of version,
\* status, reserved, address type that is wrong; "none" when all four pass
FirstHeaderError(h) ==
    IF h[1] # 5 THEN [kind |-> "badVersion", got |-> h[1]]
    ELSE IF h[2] # 0 THEN [kind |-> "refused", got |-> h[2]]
    ELSE IF h[3] # 0 THEN [kind |-> "badReserved", got |-> h[3]]
    ELSE IF h[4] \notin { 1, 4 } THEN [kind |-> "badAtyp", got |-> h[4]]
    ELSE [kind |-> "none"]

\* C13: the connect reply header is validated in the order version, status,
\* reserved, address type: the call returns exactly the first error in this
\* order, whatever the bytes after the offending one are, and goes on to read
\* the bound address only when all four bytes pass.
HeaderPriority ==
    \A c \in calls : HeaderRead(c) =>
        IF FirstHeaderError(Header(c)).kind = "none"
        THEN Len(ops[c]) = 6 => pc[c] = "readBound"
        ELSE /\ Done(c)
             /\ ret[c] = [conn |-> Nil, err |-> FirstHeaderError(Header(c))]
             /\ Len(ops[c]) = 6

\* a call that read a header wrong in all four bytes and reported the version
HeaderPriorityWitness ==
    \E c \in calls :
        /\ HeaderRead(c) /\ Header(c) = << 4, 255, 1, 127 >>
        /\ Done(c) /\ ret[c].err = [kind |-> "badVersion", got |-> 4]

\* the error the resolver gives for a target address that names no host and
\* port: the number error of a bad port text, else the address error
ResolverError(addr) ==
    IF \E b \in BadPorts : b.addr = addr
    THEN LET b == CHOOSE x \in BadPorts : x.addr = addr
         IN [kind |-> "num", text |-> b.text, why |-> b.why]
    ELSE IF addr = NoSeparatorAddr
         THEN [kind |-> "addr", addr |-> addr, why |-> "missing port in address"]
    ELSE [kind |-> "addr", addr |-> addr, why |-> "too many colons in address"]

\* the method-selection read of the call has returned
MethodRead(c) == Len(ops[c]) >= 4 /\ pc[c] # "resolve"

\* C14: the target address is resolved only after the greeting was written
\* and the method-selection reply read and found valid.  For a malformed
\* target the greeting is still written and 2 bytes are still asked for; a
\* failed read or an invalid reply is the error returned, and the resolver's
\* error is returned, unchanged, only after the reply 05 00.
ResolvedAfterMethod ==
    \A c \in calls : targetAddr[c] \in Malformed =>
        /\ pc[c] = "resolve" =>
             /\ Len(ops[c]) = 4 /\ wire[c] = Greeting /\ nread[c] = 2
             /\ ops[c][4].data = << 5, 0 >>
        /\ (Done(c) /\ ret[c].err.kind \in { "addr", "num" }) =>
             /\ Len(ops[c]) = 4
             /\ ops[c][3] = Op("write", 3, Greeting) /\ wire[c] = Greeting
             /\ ops[c][4] = Op("read", 2, << 5, 0 >>)
        /\ MethodRead(c) =>
             /\ Done(c) /\ Len(ops[c]) = 4 /\ ret[c].conn = Nil
             /\ LET d == ops[c][4].data IN
                IF Len(d) < 2
                THEN ret[c].err.kind = "transport" /\ ret[c].err.op = "read"
                ELSE IF d[1] # 5 THEN ret[c].err = [kind |-> "notSocks5"]
                ELSE IF d[2] # 0
                     THEN ret[c].err = [kind |-> "authFailed", expected |-> 0, got |-> d[2]]
                ELSE ret[c].err = ResolverError(targetAddr[c])

\* a call for a:b:1 that was answered 04 00 and failed on the version
ResolvedAfterMethodWitness ==
    \E c \in calls :
        /\ targetAddr[c] = << 97, 58, 98, 58, 49 >>
        /\ MethodRead(c) /\ ops[c][4].data = << 4, 0 >>
        /\ ret[c].err = [kind |-> "notSocks5"]

\* the i-th operation of the call is a read that came back short
ReadShort(c, i) == ops[c][i].op = "read" /\ Len(ops[c][i].data) < ops[c][i].n

\* the bytes the connection carries when every write of the call went through
AllWritten(c) ==
    IF Len(ops[c]) < 3 THEN << >>
    ELSE IF Len(ops[c]) < 5 THEN ops[c][3].data
    ELSE ops[c][3].data \o ops[c][5].data

\* the error the i-th operation of the call shows in the log: "none" when
\* the operation went through and what it read passed the checks
Shown(c, i) ==
    LET o == ops[c][i] IN
    IF o.op = "read" /\ Len(o.data) < o.n THEN "read"
    ELSE IF i = 4 /\ o.data # << 5, 0 >> THEN "method"
    ELSE IF i = 6 /\ FirstHeaderError(o.data).kind # "none" THEN "header"
    ELSE "none"

\* C15: every failure is terminal.  A step that fails is the last operation
\* of the call, the call has returned, and the error returned is that step's:
\* every operation before the last went through, and no later step's outcome
\* replaces an error.
FailureTerminal ==
    \A c \in calls :
        /\ \A i \in 1..(Len(ops[c]) - 1) : Shown(c, i) = "none"
        /\ Len(ops[c]) > 3 => IsPrefix(Greeting, wire[c])
        /\ Len(ops[c]) > 5 => wire[c] = AllWritten(c)
        /\ wire[c] # AllWritten(c) =>
             /\ Done(c) /\ ops[c][Len(ops[c])].op = "write"
             /\ ret[c].conn = Nil
             /\ ret[c].err.kind = "transport" /\ ret[c].err.op = "write"
        /\ (Len(ops[c]) > 0 /\ Shown(c, Len(ops[c])) # "none") =>
             /\ Done(c)
             /\ Shown(c, Len(ops[c])) = "read" =>
                  ret[c].err.kind = "transport" /\ ret[c].err.op = "read"
             /\ Shown(c, Len(ops[c])) = "method" =>
                  ret[c].err.kind \in { "notSocks5", "authFailed" }
             /\ Shown(c, Len(ops[c])) = "header" =>
                  ret[c].err = FirstHeaderError(ops[c][6].data)
        /\ (Done(c) /\ wire[c] = AllWritten(c) /\ Shown(c, Len(ops[c])) = "none") =>
             IF Len(ops[c]) = 1
             THEN ret[c].err.kind = "transport" /\ ret[c].err.op = "connect"
             ELSE IF Len(ops[c]) = 2
                  THEN ret[c].err.kind = "transport" /\ ret[c].err.op = "setDeadline"
             ELSE IF Len(ops[c]) = 4
                  THEN ret[c].err.kind \in { "addr", "num", "hostTooLong" }
             ELSE Len(ops[c]) = 7 /\ ret[c].err = NoErr

\* a call whose read of the bound address came back short, after six
\* operations that went through, and that returned the read's error
FailureTerminalWitness ==
    \E c \in calls :
        /\ Done(c) /\ Len(ops[c]) = 7 /\ ReadShort(c, 7)
        /\ Len(ops[c][7].data) > 0
        /\ ret[c].err = TransportErr("read", "unexpected EOF")

\* C16: the driver never closes the connection, and after a successful
\* connect a call that fails returns no connection (the connection is
\* abandoned, open), while a call that succeeds returns it, open.
AbandonedNotClosed ==
    \A c \in calls : conn[c] # Nil =>
        /\ ~closed[c]
        /\ Done(c) =>
             IF ret[c].err = NoErr THEN ret[c].conn = conn[c] ELSE ret[c].conn = Nil

\* the function has no conn.Close(): no connection is ever closed
NeverClosed == \A c \in calls : ~closed[c]

\* everything that belongs to the call d
CallState(d) ==
    << targetAddr[d], timeout[d], pc[d], now[d], conn[d], resp[d], req[d], ret[d],
       retAt[d], ops[d], deadline[d], wire[d], inbuf[d], nread[d], sent[d],
       peerClosed[d], broken[d], wblock[d], closed[d] >>

\* a step is a step of at most one call: it leaves every other call as it was
OwnStateOnly ==
    \E c \in calls : \A d \in calls \ { c } : CallState(d)' = CallState(d)

\* what the call does when it runs alone: the request of its own target
AloneRequest(c) ==
    LET hp == splitHostPort(targetAddr[c]) IN
    IF hp.err # NoErr \/ HostTooLong(hp.host) THEN << >>
    ELSE ConnectRequest(hp.host, hp.port)

\* what the call returns when it runs alone and reads what its log shows:
\* the error, and whether it returns its connection
AloneError(c) ==
    LET n == Len(ops[c])
        last == ops[c][n]
    IN
    IF n <= 2 THEN TransportErr(last.op, ret[c].err.why)
    ELSE IF last.op = "write" THEN TransportErr("write", "timeout")
    ELSE IF Len(last.data) < last.n THEN TransportErr("read", "timeout")
    ELSE IF n = 4
         THEN IF MethodCheck(last.data) # NoErr THEN MethodCheck(last.data)
              ELSE splitHostPort(targetAddr[c]).err
    ELSE IF n = 6
         THEN IF HeaderCheck(last.data) # NoErr THEN HeaderCheck(last.data)
              ELSE [kind |-> "badAtyp", got |-> last.data[4]]
    ELSE NoErr

\* the call is as it would be had it run alone against the same responses
Alone(c) ==
    /\ conn[c] \in { Nil, c }
    /\ req[c] \in { << >>, AloneRequest(c) }
    /\ \A i \in Writes(c) : ops[c][i].data = IF i = 3 THEN Greeting ELSE AloneRequest(c)
    /\ IsPrefix(wire[c], Greeting \o AloneRequest(c))
    /\ \A i \in 1..Len(ops[c]) : ops[c][i].op = "read" =>
         /\ i \in { 4, 6, 7 }
         /\ ops[c][i].n = IF i = 4 THEN 2 ELSE IF i = 6 THEN 4
                          ELSE BoundSize(ops[c][6].data[4])
         /\ Len(ops[c][i].data) = ops[c][i].n => resp[c] = ops[c][i].data \/ i < Len(ops[c])
    /\ Done(c) =>
         /\ ret[c].err = AloneError(c)
         /\ ret[c].conn = IF Len(ops[c]) = 7 THEN c ELSE Nil

\* C17: two handshakes running at once share no state.  Every step changes
\* the state of one call only, each call uses its own connection, and under
\* every interleaving what a call writes and returns is what it writes and
\* returns alone, given its own target address and the responses it read.
CallsIndependent ==
    /\ [](\A c \in calls : Alone(c))
    /\ [][OwnStateOnly]_vars

\* both calls began at time 0 and ran side by side past time 1; call 1
\* succeeded with an IPv6 bound address while call 2 was refused
CallsIndependentWitness ==
    /\ calls = PairCalls
    /\ now[1] = 0 /\ now[2] = 0 /\ retAt[1] >= 1 /\ retAt[2] >= 1
    /\ Succeeded(1) /\ ops[1][7].n = 16 + 2
    /\ Done(2) /\ ret[2].err = [kind |-> "refused", got |-> 1]

\* the bytes the call consumed, in order: what its reads stored
Consumed(c) ==
    IF Len(ops[c]) < 4 THEN << >>
    ELSE IF Len(ops[c]) < 6 THEN ops[c][4].data
    ELSE IF Len(ops[c]) < 7 THEN ops[c][4].data \o ops[c][6].data
    ELSE ops[c][4].data \o ops[c][6].data \o ops[c][7].data

\* C18: a call that succeeds has consumed exactly 12 bytes when the reply's
\* ATYP is IPv4 and exactly 24 when it is IPv6, in reads of 2, 4 and 6 or 18
\* bytes; no call ever consumes more, what the proxy sent beyond the bound
\* port stays unread, and a call that read the whole bound address succeeds
\* whatever its bytes are.
ConsumedExactly ==
    \A c \in calls :
        /\ nread[c] = Len(Consumed(c))
        /\ nread[c] <= 2 + 4 + 16 + 2
        /\ Succeeded(c) =>
             /\ Len(ops[c]) = 7
             /\ Header(c)[4] \in { 1, 4 }
             /\ Header(c)[4] = 1 => nread[c] = 12 /\ Len(ops[c][7].data) = 6
             /\ Header(c)[4] = 4 => nread[c] = 24 /\ Len(ops[c][7].data) = 18
        /\ (Len(ops[c]) = 7 /\ Len(ops[c][7].data) = ops[c][7].n) => Succeeded(c)

\* a call that succeeded on an IPv6 bound address of bytes 0xFF and left the
\* bytes the proxy sent after it unread
ConsumedExactlyWitness ==
    \E c \in calls :
        /\ Succeeded(c) /\ nread[c] = 24
        /\ ops[c][7].data = Rep(255, 18)
        /\ inbuf[c] = Rep(255, MaxExtra)

\* the call returned the error of the connect or of the setting of the deadline
SetupFailed(c) ==
    /\ Done(c)
    /\ ret[c].err.kind = "transport"
    /\ ret[c].err.op \in { "connect", "setDeadline" }

\* C19: a call whose transport connect fails, or whose setting of the
\* deadline on the new connection fails, returns that error and no
\* connection, having written and read nothing; no byte is written or read
\* on a connection whose deadline is not set.
NoIoBeforeDeadline ==
    \A c \in calls :
        /\ SetupFailed(c) =>
             /\ ret[c].conn = Nil
             /\ wire[c] = << >> /\ nread[c] = 0
             /\ Len(ops[c]) = IF ret[c].err.op = "connect" THEN 1 ELSE 2
             /\ ret[c].err.op = "connect" <=> conn[c] = Nil
        /\ (Done(c) /\ conn[c] = Nil) =>
             /\ ret[c].err.kind = "transport" /\ ret[c].err.op = "connect"
             /\ ops[c] = << Op("connect", 0, << >>) >>
        /\ (Done(c) /\ conn[c] # Nil /\ deadline[c] = -1) =>
             ret[c] = [conn |-> Nil, err |-> TransportErr("setDeadline", "failed")]
        /\ deadline[c] = -1 =>
             /\ wire[c] = << >> /\ nread[c] = 0
             /\ \A i \in 1..Len(ops[c]) : ops[c][i].op \in { "connect", "setDeadline" }

\* a call that connected, failed to set the deadline and returned that error
\* with nothing written
NoIoBeforeDeadlineWitness ==
    \E c \in calls :
        /\ SetupFailed(c) /\ ret[c].err.op = "setDeadline"
        /\ conn[c] # Nil /\ ret[c].conn = Nil
        /\ Len(ops[c]) = 2 /\ wire[c] = << >>

=============================================================================
